---- MODULE Spec2Model ----
(***************************************************************************)
(* Model of the matchmaker service (src/src/main.rs): three stores, each   *)
(* behind its own tokio Mutex, and seven request handlers that run as      *)
(* concurrent tasks.  A handler is cut at its suspension points (every     *)
(* lock().await) and, where it writes, between the read that decides and   *)
(* the write that acts, so that the exclusion the mutex gives is something *)
(* the checks depend on.                                                   *)
(***************************************************************************)
EXTENDS Integers, Sequences, FiniteSets, TLC

\* ---------------------------------------------------------------- bounds
NumTasks == 2        \* request tasks that may run concurrently (Spec)
NumIds == 2          \* distinct profile identifiers a client may name (Spec)
MaxJoins == 3        \* enqueue calls started in one behaviour (Spec)
MaxN == 4            \* profiles that join in the scenarios of distinct joiners
MaxCalls == 4        \* enqueue calls started in one behaviour (SpecRegistered)

Tasks == 1..NumTasks
Ids == 1..NumIds
Names == {"name"}      \* payload.name: any text, one stands for all
Joiners == 1..MaxN
MaxOf(a, b) == IF a >= b THEN a ELSE b
MatchIds == 1..MaxOf(MaxOf(MaxJoins, MaxCalls) \div 2, MaxN \div 2)

NoTask == 0          \* a mutex nobody holds
NoId == 0            \* a task local that is not set
NoName == ""         \* payload.name of a task that creates no profile
NoPos == -1          \* Option::None of an index

\* ------------------------------------------------------------- responses
\* (status, body): body is a text, or JSON data carried in a sequence.
Response(status, text, data) == [status |-> status, text |-> text, data |-> data]
NoResponse == Response(0, "", <<>>)
RespUnknownProfile == Response(400, "Profile does not exist", <<>>)
RespAlreadyQueued == Response(200, "Already in queue", <<>>)
RespEnqueued == Response(202, "Enqueued", <<>>)
RespMatch(m) == Response(201, "", <<m>>)
RespRemoved == Response(200, "Removed from queue", <<>>)
RespNotQueued == Response(400, "Not in queue", <<>>)
RespProfileNotFound == Response(404, "Profile not found", <<>>)
RespMatchNotFound == Response(404, "Match not found", <<>>)
RespCreated(p) == Response(201, "", <<p>>)
RespOk(data) == Response(200, "", data)

\* ------------------------------------------------- VecDeque<Uuid> (0-based)
Range(q) == {q[i] : i \in 1..Len(q)}

\* the sequence q without its i-th element (1-based)
Without(q, i) == SubSeq(q, 1, i - 1) \o SubSeq(q, i + 1, Len(q))

\* a membership test that never finds the identifier
ContainsNever(q, id) == FALSE

\* VecDeque::contains
Contains(q, id) == \E i \in 1..Len(q) : q[i] = id

\* an emptiness test that takes a single waiting entry for none
IsEmptyOffByOne(q) == Len(q) <= 1

\* VecDeque::is_empty
IsEmpty(q) == Len(q) = 0

\* a removal that leaves the deque as it was
RemoveAtKeep(q, idx) == q

\* VecDeque::remove(idx): the deque without the element at idx; unchanged
\* when idx is out of range (the call returns None).
RemoveAt(q, idx) ==
    IF idx >= 0 /\ idx < Len(q)
    THEN [i \in 1..(Len(q) - 1) |-> IF i <= idx THEN q[i] ELSE q[i + 1]]
    ELSE q

\* the element VecDeque::remove(idx) returns (NoId for None)
ElemAt(q, idx) == IF idx >= 0 /\ idx < Len(q) THEN q[idx + 1] ELSE NoId

\* VecDeque::push_back
PushBack(q, id) == Append(q, id)

\* a position counted from one instead of zero
PositionOneBased(q, id) ==
    IF \E i \in 1..Len(q) : q[i] = id
    THEN CHOOSE i \in 1..Len(q) : q[i] = id /\ \A j \in 1..(i - 1) : q[j] # id
    ELSE -1

\* iter().position(|x| *x == id): first index holding id, or None
Position(q, id) ==
    IF Contains(q, id)
    THEN (CHOOSE i \in 1..Len(q) : q[i] = id /\ \A j \in 1..(i - 1) : q[j] # id) - 1
    ELSE NoPos

\* rng.gen_range(0..len): the indices the draw can produce
GenRange(len) == 0..(len - 1)

\* an identifier that may be one already in use
NewUuidAny(space, used) == space

\* Uuid::new_v4(): an identifier not in use
NewUuid(space, used) == space \ used

\* a match built with its two players exchanged
MatchInfoSwapped(id, p1, p2) == [id |-> id, player1 |-> p2, player2 |-> p1]

\* MatchInfo { id, player1, player2 }
MatchInfo(id, p1, p2) == [id |-> id, player1 |-> p1, player2 |-> p2]
NoMatch == MatchInfo(0, NoId, NoId)

\* Profile { id, name }
Profile(id, name) == [id |-> id, name |-> name]

\* HashMap::insert
Insert(map, k, v) == [x \in (DOMAIN map) \cup {k} |-> IF x = k THEN v ELSE map[x]]
EmptyMap == [x \in {} |-> 0]
Values(map) == {map[k] : k \in DOMAIN map}

\* a mutex that excludes nobody
CanLockAlways(owner) == TRUE

\* tokio::sync::Mutex::lock().await completes only when nobody holds the mutex
CanLock(owner) == owner = NoTask

\* ----------------------------------------------------------------- state
VARIABLES
    profiles,   \* AppState.profiles : id -> Profile
    queue,      \* AppState.queue    : the wait list
    matches,    \* AppState.matches  : id -> MatchInfo
    lockP,      \* holder of the profiles mutex
    lockQ,      \* holder of the queue mutex
    lockM,      \* holder of the matches mutex
    pc,         \* per task: where its handler stands ("idle" between requests)
    arg,        \* per task: payload.profile_id / the path id / the new id
    name,       \* per task: payload.name of create_profile
    pos,        \* per task: leave_queue's pos
    pending,    \* per task: enqueue's m, built but not yet inserted
    njoins,     \* enqueue calls started so far
    \* history variables (they record what happened; no handler reads them)
    tickets,    \* per wait-list entry, the number of the placement that put it there
    placed,     \* number of placements so far
    ended,      \* per placement: how many pairings and Removed leaves ended it
    found,      \* per task: the placement leave_queue's position() found
    before,     \* per task: the wait list as it was when the task locked it
    eff,        \* per task: entries added / removed, matches recorded by its call
    built,      \* every MatchInfo constructed so far
    last,       \* the call that returned in the step into this state, if one
                \* did: what it was, saw, did and answered
    prev,       \* the enqueue or leave_queue call that returned last, in brief
    tally,      \* how many calls have answered Enqueued, a match, Removed
    joined      \* per profile registered from the start: how many joins on it
                \* were answered Enqueued or with a match

data == <<profiles, queue, matches>>
locks == <<lockP, lockQ, lockM>>
locals == <<arg, name, pos, pending, found, before, eff>>
placements == <<tickets, placed, ended>>
vars == <<profiles, queue, matches, lockP, lockQ, lockM, pc, arg, name, pos,
          pending, njoins, tickets, placed, ended, found, before, eff, built,
          last, prev, tally, joined>>

NoEffect == [added |-> <<>>, removed |-> 0, recorded |-> 0]

\* history helpers
Grew(old, new) == IF new > old THEN new - old ELSE 0
Shrank(old, new) == IF new < old THEN old - new ELSE 0
EffQueue(e, q, q2) ==
    [e EXCEPT !.added = @ \o SubSeq(q2, Len(q) + 1, Len(q2)),
              !.removed = @ + Shrank(Len(q), Len(q2))]
EffMatches(e, m, m2) ==
    [e EXCEPT !.recorded = @ + Grew(Cardinality(DOMAIN m), Cardinality(DOMAIN m2))]
Brief(c, a, b, r) == [call |-> c, arg |-> a, empty |-> (b = <<>>), text |-> r.text]
NoBrief == Brief("none", NoId, <<>>, NoResponse)
\* how a call on id a relates to the enqueue or leave_queue call p that
\* returned just before it
Follows(p, a) ==
    IF p.arg = a /\ p.call = "leave_queue" /\ p.text = "Removed from queue"
    THEN "leave"
    ELSE IF p.arg = a /\ p.call = "enqueue" /\ p.text = "Enqueued" /\ p.empty
         THEN "join"
         ELSE "other"
Done(c, a, b, r, e, f) ==
    [call |-> c, arg |-> a, before |-> b, resp |-> r, eff |-> e, follows |-> f]
NoCall == Done("none", NoId, <<>>, NoResponse, NoEffect, "other")
\* the answers counted so far, and the count after handler c has answered r
NoTally == [enqueued |-> 0, matched |-> 0, removed |-> 0]
Tallied(n, c, r) ==
    IF c = "enqueue" /\ r.status = 202 THEN [n EXCEPT !.enqueued = @ + 1]
    ELSE IF c = "enqueue" /\ r.status = 201 THEN [n EXCEPT !.matched = @ + 1]
    ELSE IF c = "leave_queue" /\ r.status = 200 THEN [n EXCEPT !.removed = @ + 1]
    ELSE n
EndBy(e, tk) == IF tk \in DOMAIN e THEN [e EXCEPT ![tk] = @ + 1] ELSE e

\* the tasks T, none of which has touched anything yet
InitTasks(T) ==
    /\ lockP = NoTask /\ lockQ = NoTask /\ lockM = NoTask
    /\ name = [t \in T |-> NoName]
    /\ pos = [t \in T |-> NoPos]
    /\ pending = [t \in T |-> NoMatch]
    /\ tickets = <<>>
    /\ placed = 0
    /\ ended = <<>>
    /\ found = [t \in T |-> 0]
    /\ before = [t \in T |-> <<>>]
    /\ eff = [t \in T |-> NoEffect]
    /\ built = {}
    /\ last = NoCall
    /\ prev = NoBrief
    /\ tally = NoTally

\* the state main() constructs (lines 48-52); no request has arrived
Init ==
    /\ profiles = EmptyMap
    /\ queue = <<>>
    /\ matches = EmptyMap
    /\ pc = [t \in Tasks |-> "idle"]
    /\ arg = [t \in Tasks |-> NoId]
    /\ njoins = 0
    /\ joined = EmptyMap
    /\ InitTasks(Tasks)

\* n registered profiles, the stores otherwise as constructed, and n enqueue
\* requests, one per profile, that have all arrived and none of which has run
InitConcurrentJoins ==
    \E n \in 0..MaxN :
        /\ profiles = [i \in 1..n |-> Profile(i, CHOOSE x \in Names : TRUE)]
        /\ queue = <<>>
        /\ matches = EmptyMap
        /\ pc = [t \in Joiners |-> IF t <= n THEN "e_profiles" ELSE "idle"]
        /\ arg = [t \in Joiners |-> IF t <= n THEN t ELSE NoId]
        /\ njoins = n
        /\ joined = [i \in 1..n |-> 0]
        /\ InitTasks(Joiners)

\* n registered profiles, the stores otherwise as constructed, and no request
\* has arrived
InitSequentialJoins ==
    \E n \in 0..MaxN :
        /\ profiles = [i \in 1..n |-> Profile(i, CHOOSE x \in Names : TRUE)]
        /\ queue = <<>>
        /\ matches = EmptyMap
        /\ pc = [t \in Tasks |-> "idle"]
        /\ arg = [t \in Tasks |-> NoId]
        /\ njoins = 0
        /\ joined = [i \in 1..n |-> 0]
        /\ InitTasks(Tasks)

\* every identifier a client may name is registered, the stores are otherwise
\* as constructed, and no request has arrived
InitRegistered ==
    /\ profiles = [i \in Ids |-> Profile(i, CHOOSE x \in Names : TRUE)]
    /\ queue = <<>>
    /\ matches = EmptyMap
    /\ pc = [t \in Tasks |-> "idle"]
    /\ arg = [t \in Tasks |-> NoId]
    /\ njoins = 0
    /\ joined = [i \in Ids |-> 0]
    /\ InitTasks(Tasks)

Goto(t, label) ==
    /\ pc' = [pc EXCEPT ![t] = label]
    /\ last' = NoCall
    /\ UNCHANGED <<prev, tally, joined>>

\* handler c, called on a, returns r to task t; it saw the wait list b and had
\* the effect e; its locals go out of scope
Return(t, c, a, b, r, e) ==
    /\ pc' = [pc EXCEPT ![t] = "idle"]
    /\ last' = Done(c, a, b, r, e, Follows(prev, a))
    /\ prev' = IF c \in {"enqueue", "leave_queue"} THEN Brief(c, a, b, r) ELSE prev
    /\ tally' = Tallied(tally, c, r)
    /\ joined' = IF c = "enqueue" /\ r.status \in {201, 202} /\ a \in DOMAIN joined
                 THEN [joined EXCEPT ![a] = @ + 1]
                 ELSE joined
    /\ arg' = [arg EXCEPT ![t] = NoId]
    /\ name' = [name EXCEPT ![t] = NoName]
    /\ pos' = [pos EXCEPT ![t] = NoPos]
    /\ pending' = [pending EXCEPT ![t] = NoMatch]
    /\ found' = [found EXCEPT ![t] = 0]
    /\ before' = [before EXCEPT ![t] = <<>>]
    /\ eff' = [eff EXCEPT ![t] = NoEffect]

\* A step is what a handler does from one lock().await to the next: the grant
\* of the mutex and the code up to the next suspension or the return.  A
\* critical section that writes is cut once more, before its first write, so
\* that what keeps other tasks out between the read and the write is the
\* mutex and not the size of the step.  A request enters its handler when the
\* first mutex the handler asks for is granted to it: until then it has read
\* and written nothing shared.

\* ------------------------------------------------------- create_profile
\* lines 107-112
create_profile_lock(t) ==
    /\ pc[t] = "idle"
    /\ CanLock(lockP)
    /\ \E id \in NewUuid(Ids, DOMAIN profiles) : arg' = [arg EXCEPT ![t] = id]
    /\ \E n \in Names : name' = [name EXCEPT ![t] = n]
    /\ lockP' = t
    /\ Goto(t, "c_insert")
    /\ UNCHANGED <<data, lockQ, lockM, pos, pending, njoins, placements, found,
                   before, eff, built>>

\* lines 113-114
create_profile_insert(t) ==
    /\ pc[t] = "c_insert"
    /\ profiles' = Insert(profiles, arg[t], Profile(arg[t], name[t]))
    /\ lockP' = NoTask
    /\ Return(t, "create_profile", arg[t], before[t],
              RespCreated(Profile(arg[t], name[t])), eff[t])
    /\ UNCHANGED <<queue, matches, lockQ, lockM, njoins, placements, built>>

\* ---------------------------------------------------------- get_profile
\* lines 121-126
get_profile(t) ==
    /\ pc[t] = "idle"
    /\ CanLock(lockP)
    /\ \E id \in Ids :
          IF id \in DOMAIN profiles
          THEN Return(t, "get_profile", id, before[t], RespOk(<<profiles[id]>>), eff[t])
          ELSE Return(t, "get_profile", id, before[t], RespProfileNotFound, eff[t])
    /\ UNCHANGED <<data, locks, njoins, placements, built>>

\* -------------------------------------------------------------- enqueue
\* an enqueue that goes on to the wait list without looking the profile up
EnsureProfileExistsUnchecked(t, id) ==
    /\ CanLock(lockP)
    /\ arg' = [arg EXCEPT ![t] = id]
    /\ Goto(t, "e_queue")
    /\ UNCHANGED <<name, pos, pending, found, before, eff>>
    /\ UNCHANGED <<data, locks, placements, built>>

\* lines 134-138 for payload.profile_id = id: an unknown profile is answered
\* 400, a known one goes on to ask for the queue mutex
EnsureProfileExists(t, id) ==
    /\ CanLock(lockP)
    /\ IF id \notin DOMAIN profiles
       THEN Return(t, "enqueue", id, before[t], RespUnknownProfile, eff[t])
       ELSE /\ arg' = [arg EXCEPT ![t] = id]
            /\ Goto(t, "e_queue")
            /\ UNCHANGED <<name, pos, pending, found, before, eff>>
    /\ UNCHANGED <<data, locks, placements, built>>

\* a request arrives and runs lines 134-138
enqueue_begin(t) ==
    /\ pc[t] = "idle"
    /\ njoins < MaxJoins
    /\ njoins' = njoins + 1
    /\ \E id \in Ids : EnsureProfileExists(t, id)

\* a request on a registered profile arrives and runs lines 134-138
enqueue_registered(t) ==
    /\ pc[t] = "idle"
    /\ njoins < MaxCalls
    /\ njoins' = njoins + 1
    /\ \E id \in DOMAIN profiles : EnsureProfileExists(t, id)

\* the next profile that has not joined yet sends its request, once every
\* earlier request has returned, and runs lines 134-138
enqueue_next(t) ==
    /\ \A u \in DOMAIN pc : pc[u] = "idle"
    /\ njoins < Cardinality(DOMAIN profiles)
    /\ njoins' = njoins + 1
    /\ EnsureProfileExists(t, njoins + 1)

\* a request that had arrived and waited for the profiles mutex runs lines
\* 134-138
enqueue_lock_profiles(t) ==
    /\ pc[t] = "e_profiles"
    /\ EnsureProfileExists(t, arg[t])
    /\ UNCHANGED njoins

\* lines 141-144: already waiting
enqueue_already(t) ==
    /\ pc[t] = "e_queue"
    /\ CanLock(lockQ)
    /\ Contains(queue, arg[t])
    /\ Return(t, "enqueue", arg[t], queue, RespAlreadyQueued, eff[t])
    /\ UNCHANGED <<data, locks, njoins, placements, built>>

\* an enqueue that appends the caller without looking at the wait list
enqueue_absent_naive(t) ==
    /\ pc[t] = "e_queue"
    /\ CanLock(lockQ)
    /\ queue' = Append(queue, arg[t])
    /\ tickets' = Append(tickets, placed + 1)
    /\ placed' = placed + 1
    /\ ended' = Append(ended, 0)
    /\ Return(t, "enqueue", arg[t], queue, RespEnqueued,
              EffQueue(eff[t], queue, Append(queue, arg[t])))
    /\ UNCHANGED <<profiles, matches, locks, njoins, built>>

\* lines 141-142, contains() is false: the caller does not wait
enqueue_absent(t) ==
    /\ pc[t] = "e_queue"
    /\ CanLock(lockQ)
    /\ ~Contains(queue, arg[t])
    /\ lockQ' = t
    /\ before' = [before EXCEPT ![t] = queue]
    /\ Goto(t, "e_decide")
    /\ UNCHANGED <<data, lockP, lockM, arg, name, pos, pending, njoins,
                   placements, found, eff, built>>

\* a pairing that gives the queue guard back before the match is recorded
enqueue_pair_unlocked(t) ==
    /\ pc[t] = "e_decide"
    /\ Len(queue) > 0
    /\ \E idx \in 0..(Len(queue) - 1) :
       \E mid \in MatchIds \ DOMAIN matches :
         LET m == [id |-> mid, player1 |-> queue[idx + 1], player2 |-> arg[t]]
         IN /\ queue' = Without(queue, idx + 1)
            /\ pending' = [pending EXCEPT ![t] = m]
            /\ tickets' = Without(tickets, idx + 1)
            /\ ended' = EndBy(ended, tickets[idx + 1])
            /\ built' = built \cup {m}
            /\ eff' = [eff EXCEPT ![t] = EffQueue(@, queue, Without(queue, idx + 1))]
    /\ lockQ' = NoTask
    /\ Goto(t, "e_matches")
    /\ UNCHANGED <<profiles, matches, lockP, lockM, arg, name, pos, njoins, placed,
                   found, before>>

\* lines 147-159: somebody waits, so draw an opponent, remove it, build the match
enqueue_pair(t) ==
    /\ pc[t] = "e_decide"
    /\ ~IsEmpty(queue)
    /\ \E idx \in GenRange(Len(queue)) :
       \E mid \in NewUuid(MatchIds, DOMAIN matches) :
         LET opponent_id == ElemAt(queue, idx)
             m == MatchInfo(mid, opponent_id, arg[t])
         IN /\ queue' = RemoveAt(queue, idx)
            /\ pending' = [pending EXCEPT ![t] = m]
            /\ tickets' = RemoveAt(tickets, idx)
            /\ ended' = EndBy(ended, ElemAt(tickets, idx))
            /\ built' = built \cup {m}
            /\ eff' = [eff EXCEPT ![t] = EffQueue(@, queue, RemoveAt(queue, idx))]
    /\ Goto(t, "e_matches")
    /\ UNCHANGED <<profiles, matches, locks, arg, name, pos, njoins, placed,
                   found, before>>

\* lines 166-168: nobody waits, so the caller is appended
enqueue_push(t) ==
    /\ pc[t] = "e_decide"
    /\ IsEmpty(queue)
    /\ queue' = PushBack(queue, arg[t])
    /\ tickets' = PushBack(tickets, placed + 1)
    /\ placed' = placed + 1
    /\ ended' = Append(ended, 0)
    /\ lockQ' = NoTask
    /\ Return(t, "enqueue", arg[t], before[t], RespEnqueued,
              EffQueue(eff[t], queue, PushBack(queue, arg[t])))
    /\ UNCHANGED <<profiles, matches, lockP, lockM, njoins, built>>

\* line 160, reached with the queue guard still held
enqueue_lock_matches(t) ==
    /\ pc[t] = "e_matches"
    /\ CanLock(lockM)
    /\ lockM' = t
    /\ Goto(t, "e_insert")
    /\ UNCHANGED <<data, lockP, lockQ, locals, njoins, placements, built>>

\* a pairing that records the match and then also appends the caller
enqueue_insert_fallthrough(t) ==
    /\ pc[t] = "e_insert"
    /\ matches' = Insert(matches, pending[t].id, pending[t])
    /\ queue' = Append(queue, arg[t])
    /\ tickets' = Append(tickets, placed + 1)
    /\ placed' = placed + 1
    /\ ended' = Append(ended, 0)
    /\ lockM' = NoTask
    /\ lockQ' = NoTask
    /\ Return(t, "enqueue", arg[t], before[t], RespMatch(pending[t]),
              EffQueue(EffMatches(eff[t], matches, Insert(matches, pending[t].id, pending[t])),
                       queue, Append(queue, arg[t])))
    /\ UNCHANGED <<profiles, lockP, njoins, built>>

\* lines 161-162: record the match; returning drops the matches and queue guards
enqueue_insert(t) ==
    /\ pc[t] = "e_insert"
    /\ matches' = Insert(matches, pending[t].id, pending[t])
    /\ lockM' = NoTask
    /\ lockQ' = NoTask
    /\ Return(t, "enqueue", arg[t], before[t], RespMatch(pending[t]),
              EffMatches(eff[t], matches, Insert(matches, pending[t].id, pending[t])))
    /\ UNCHANGED <<profiles, queue, lockP, njoins, placements, built>>

\* ---------------------------------------------------------- leave_queue
\* lines 175-176, position() is Some(pos)
leave_queue_found(t) ==
    /\ pc[t] = "idle"
    /\ CanLock(lockQ)
    /\ \E id \in Ids :
          /\ Position(queue, id) # NoPos
          /\ arg' = [arg EXCEPT ![t] = id]
          /\ pos' = [pos EXCEPT ![t] = Position(queue, id)]
          /\ found' = [found EXCEPT ![t] = ElemAt(tickets, Position(queue, id))]
    /\ lockQ' = t
    /\ before' = [before EXCEPT ![t] = queue]
    /\ Goto(t, "l_remove")
    /\ UNCHANGED <<data, lockP, lockM, name, pending, njoins, placements, eff,
                   built>>

\* lines 175-176 and 179-180, position() is None
leave_queue_missing(t) ==
    /\ pc[t] = "idle"
    /\ CanLock(lockQ)
    /\ \E id \in Ids :
          /\ Position(queue, id) = NoPos
          /\ Return(t, "leave_queue", id, queue, RespNotQueued, eff[t])
    /\ UNCHANGED <<data, locks, njoins, placements, built>>

\* lines 177-178
leave_queue_remove(t) ==
    /\ pc[t] = "l_remove"
    /\ queue' = RemoveAt(queue, pos[t])
    /\ tickets' = RemoveAt(tickets, pos[t])
    /\ ended' = EndBy(ended, found[t])
    /\ lockQ' = NoTask
    /\ Return(t, "leave_queue", arg[t], before[t], RespRemoved,
              EffQueue(eff[t], queue, RemoveAt(queue, pos[t])))
    /\ UNCHANGED <<profiles, matches, lockP, lockM, njoins, placed, built>>

\* ------------------------------------------------------------ get_queue
\* lines 185-187
get_queue(t) ==
    /\ pc[t] = "idle"
    /\ CanLock(lockQ)
    /\ Return(t, "get_queue", arg[t], queue, RespOk(queue), eff[t])
    /\ UNCHANGED <<data, locks, njoins, placements, built>>

\* --------------------------------------------------------- list_matches
\* HashMap::values() visits every entry once, in an order the map chooses
Listings(map) ==
    {s \in [1..Cardinality(DOMAIN map) -> Values(map)] :
        \A i, j \in DOMAIN s : i # j => s[i] # s[j]}

\* lines 191-193
list_matches(t) ==
    /\ pc[t] = "idle"
    /\ CanLock(lockM)
    /\ \E list \in Listings(matches) :
          Return(t, "list_matches", arg[t], before[t], RespOk(list), eff[t])
    /\ UNCHANGED <<data, locks, njoins, placements, built>>

\* list_matches cut at the grant of the matches mutex, for the specification
\* that looks at who waits for whom: line 191
list_matches_lock(t) ==
    /\ pc[t] = "idle"
    /\ CanLock(lockM)
    /\ lockM' = t
    /\ Goto(t, "m_read")
    /\ UNCHANGED <<data, lockP, lockQ, locals, njoins, placements, built>>

\* a list_matches that, holding the matches guard, needs the queue mutex too
list_matches_read_queue(t) ==
    /\ pc[t] = "m_read"
    /\ lockQ = NoTask
    /\ lockM' = NoTask
    /\ \E list \in Listings(matches) :
          Return(t, "list_matches", arg[t], before[t], RespOk(list), eff[t])
    /\ UNCHANGED <<data, lockP, lockQ, njoins, placements, built>>

\* lines 192-193, with the matches guard held; returning drops it
list_matches_read(t) ==
    /\ pc[t] = "m_read"
    /\ lockM' = NoTask
    /\ \E list \in Listings(matches) :
          Return(t, "list_matches", arg[t], before[t], RespOk(list), eff[t])
    /\ UNCHANGED <<data, lockP, lockQ, njoins, placements, built>>

\* ------------------------------------------------------------ get_match
\* lines 200-205
get_match(t) ==
    /\ pc[t] = "idle"
    /\ CanLock(lockM)
    /\ \E id \in MatchIds :
          IF id \in DOMAIN matches
          THEN Return(t, "get_match", id, before[t], RespOk(<<matches[id]>>), eff[t])
          ELSE Return(t, "get_match", id, before[t], RespMatchNotFound, eff[t])
    /\ UNCHANGED <<data, locks, njoins, placements, built>>

\* ------------------------------------------------------- specifications
\* any requests, in any order and interleaving
Next ==
    \E t \in Tasks :
        \/ create_profile_lock(t)
        \/ create_profile_insert(t)
        \/ get_profile(t)
        \/ enqueue_begin(t)
        \/ enqueue_already(t)
        \/ enqueue_absent(t)
        \/ enqueue_pair(t)
        \/ enqueue_push(t)
        \/ enqueue_lock_matches(t)
        \/ enqueue_insert(t)
        \/ leave_queue_found(t)
        \/ leave_queue_missing(t)
        \/ leave_queue_remove(t)
        \/ get_queue(t)
        \/ list_matches(t)
        \/ get_match(t)

Spec == Init /\ [][Next]_vars

\* the requests of InitConcurrentJoins run to completion, in any interleaving;
\* their profiles exist and differ, so lines 136 and 143 are never reached
NextConcurrentJoins ==
    \E t \in Joiners :
        \/ enqueue_lock_profiles(t)
        \/ enqueue_absent(t)
        \/ enqueue_pair(t)
        \/ enqueue_push(t)
        \/ enqueue_lock_matches(t)
        \/ enqueue_insert(t)

SpecConcurrentJoins == InitConcurrentJoins /\ [][NextConcurrentJoins]_vars

\* joins, leaves and reads of the matches on registered profiles, in any order
\* and interleaving; line 136 is never reached
NextRegistered ==
    \E t \in Tasks :
        \/ enqueue_registered(t)
        \/ enqueue_already(t)
        \/ enqueue_absent(t)
        \/ enqueue_pair(t)
        \/ enqueue_push(t)
        \/ enqueue_lock_matches(t)
        \/ enqueue_insert(t)
        \/ leave_queue_found(t)
        \/ leave_queue_missing(t)
        \/ leave_queue_remove(t)
        \/ list_matches(t)
        \/ get_match(t)

SpecRegistered == InitRegistered /\ [][NextRegistered]_vars

\* the profiles of InitSequentialJoins join one after another, in the order of
\* their identifiers, with reads of the wait list and of the matches in between
NextSequentialJoins ==
    \E t \in Tasks :
        \/ enqueue_next(t)
        \/ enqueue_absent(t)
        \/ enqueue_pair(t)
        \/ enqueue_push(t)
        \/ enqueue_lock_matches(t)
        \/ enqueue_insert(t)
        \/ get_queue(t)
        \/ list_matches(t)

SpecSequentialJoins == InitSequentialJoins /\ [][NextSequentialJoins]_vars

\* what task t does next once its call has started: every step but the first
\* of a handler
Continue(t) ==
    \/ create_profile_insert(t)
    \/ enqueue_already(t)
    \/ enqueue_absent(t)
    \/ enqueue_pair(t)
    \/ enqueue_push(t)
    \/ enqueue_lock_matches(t)
    \/ enqueue_insert(t)
    \/ leave_queue_remove(t)
    \/ list_matches_read(t)

\* any requests, in any order and interleaving, list_matches holding the
\* matches mutex over a step
NextFair ==
    \E t \in Tasks :
        \/ create_profile_lock(t)
        \/ get_profile(t)
        \/ enqueue_begin(t)
        \/ leave_queue_found(t)
        \/ leave_queue_missing(t)
        \/ get_queue(t)
        \/ list_matches_lock(t)
        \/ get_match(t)
        \/ Continue(t)

\* tokio's Mutex grants the lock in the order it was asked for and the runtime
\* polls every task that can run: a task that can go on again and again does
\* go on
Fairness == \A t \in Tasks : SF_vars(Continue(t))

SpecFair == Init /\ [][NextFair]_vars /\ Fairness

\* the history variables follow the stores
HistoryOK ==
    /\ Len(tickets) = Len(queue)
    /\ Len(ended) = placed
    /\ Values(matches) \subseteq built

\* ------------------------------------------------------------ properties
\* the wait list is being looked at: a task holds the queue guard and is about
\* to act on what it read, or a call that read the wait list has just returned
Observing ==
    \/ \E u \in DOMAIN pc : pc[u] \in {"e_decide", "l_remove"}
    \/ last.call \in {"get_queue", "leave_queue"}
    \/ last.call = "enqueue" /\ last.resp.text # "Profile does not exist"

Count(q, id) == Cardinality({i \in 1..Len(q) : q[i] = id})

\* C1: a placement in the wait list is ended by at most one event, a pairing
\* that takes it as opponent or a leave that answers Removed, under every
\* interleaving of enqueue and leave_queue calls.
C1_PlacementEndedOnce ==
    \A tk \in DOMAIN ended : ended[tk] <= 1

\* a leave has found its entry and a join is waiting for the queue mutex,
\* after an earlier placement has been ended
C1_Witness ==
    /\ \E t, u \in DOMAIN pc : pc[t] = "l_remove" /\ pc[u] = "e_queue"
    /\ \E tk \in DOMAIN ended : ended[tk] = 1

\* C2: whoever holds the wait list (get_queue, leave_queue, another enqueue)
\* sees it only when every match built so far, whose opponent is therefore
\* gone from the list, is already in the match store.
C2_NoObservationBetween ==
    Observing => built \subseteq Values(matches)

\* get_queue has read the wait list after a pairing has taken place
C2_Witness ==
    /\ last.call = "get_queue"
    /\ built # {}

\* C3: the wait list never holds an identifier twice.
C3_NoDuplicate ==
    \A i, j \in 1..Len(queue) : i # j => queue[i] # queue[j]

\* a join by an identifier that was waiting has returned and the identifier
\* still waits
C3_Witness ==
    /\ last.call = "enqueue"
    /\ last.arg \in Range(last.before)
    /\ Count(queue, last.arg) = 1

\* C4: when N distinct registered profiles join concurrently on empty stores
\* and all N calls have returned, there are floor(N/2) matches, no profile is
\* in two of them, and N mod 2 profiles wait.
AllReturned == \A t \in DOMAIN pc : pc[t] = "idle"
Players(m) == {m.player1, m.player2}
C4_ConcurrentJoins ==
    AllReturned =>
        /\ Cardinality(DOMAIN matches) = njoins \div 2
        /\ \A a, b \in DOMAIN matches :
              a # b => Players(matches[a]) \cap Players(matches[b]) = {}
        /\ Len(queue) = njoins % 2

\* four or more joiners have all returned, leaving two matches
C4_Witness ==
    /\ AllReturned
    /\ njoins >= 4
    /\ Cardinality(DOMAIN matches) >= 2

\* C5: an enqueue call that has returned has had one of three effects: one
\* entry removed and one match recorded, nothing appended; or the caller
\* appended, nothing removed or recorded; or nothing at all.
C5_OneEffect ==
    last.call = "enqueue" =>
        \/ last.eff = [added |-> <<>>, removed |-> 1, recorded |-> 1]
        \/ last.eff = [added |-> <<last.arg>>, removed |-> 0, recorded |-> 0]
        \/ last.eff = NoEffect

\* a pairing call has returned
C5_Witness ==
    /\ last.call = "enqueue"
    /\ last.eff.recorded = 1

\* C6: a join by a profile that does not wait, on a non-empty wait list,
\* returns a match whose player2 is the caller and whose player1 waited; the
\* match is stored and the wait list is the one before without that entry.
C6_Pairing ==
    (last.call = "enqueue" /\ last.before # <<>> /\ last.arg \notin Range(last.before)) =>
        /\ last.arg \in DOMAIN profiles
        /\ last.resp.status = 201
        /\ Len(last.resp.data) = 1
        /\ LET m == last.resp.data[1]
           IN /\ m.player2 = last.arg
              /\ m.player1 \in Range(last.before)
              /\ m \in Values(matches)
              /\ \E i \in 1..Len(last.before) :
                    /\ last.before[i] = m.player1
                    /\ queue = Without(last.before, i)

\* B has joined on the wait list [A]: the match is {A, B} and nobody waits
C6_Witness ==
    /\ last.call = "enqueue"
    /\ last.resp.status = 201
    /\ Len(last.before) = 1
    /\ last.resp.data[1].player1 = last.before[1]
    /\ last.resp.data[1].player2 = last.arg
    /\ queue = <<>>

\* C7: a join by an identifier that already waits answers AlreadyQueued and
\* changes nothing; a join that directly follows a join of the same identifier
\* that was enqueued on an empty wait list answers AlreadyQueued, and the
\* identifier waits exactly once.
C7_AlreadyQueued ==
    /\ (last.call = "enqueue" /\ last.arg \in Range(last.before)) =>
          /\ last.resp.status = 200
          /\ last.resp.text = "Already in queue"
          /\ last.eff = NoEffect
    /\ (last.call = "enqueue" /\ last.follows = "join") =>
          /\ last.resp.text = "Already in queue"
          /\ Count(queue, last.arg) = 1

\* the second of two joins in a row by one identifier has returned
C7_Witness ==
    /\ last.call = "enqueue"
    /\ last.follows = "join"
    /\ last.resp.text = "Already in queue"
    /\ queue = <<last.arg>>

\* C8: a leave by a waiting profile answers Removed, and a join by the same
\* profile that directly follows it answers Enqueued and puts the profile
\* back in the wait list.
C8_LeaveThenJoin ==
    /\ (last.call = "leave_queue" /\ last.arg \in Range(last.before)) =>
          last.resp.text = "Removed from queue"
    /\ (last.call = "enqueue" /\ last.follows = "leave") =>
          /\ last.resp.status = 202
          /\ last.resp.text = "Enqueued"
          /\ last.arg \in Range(queue)

\* a join directly after the leave of the same profile has returned Enqueued
C8_Witness ==
    /\ last.call = "enqueue"
    /\ last.follows = "leave"
    /\ last.resp.text = "Enqueued"
    /\ queue = <<last.arg>>

\* C9: no match, recorded or just built, pairs a profile with itself.
C9_NoSelfPairing ==
    \A m \in Values(matches) \cup built : m.player1 # m.player2

\* a pairing call has returned a match that is recorded and whose two players
\* differ
C9_Witness ==
    /\ last.call = "enqueue"
    /\ last.resp.status = 201
    /\ last.resp.data[1] \in Values(matches)
    /\ last.resp.data[1].player1 # last.resp.data[1].player2

\* C10 as stated: both participants of a match that is being created were in
\* the wait list when the pairing call locked it.
C10_BothWaited ==
    \A t \in DOMAIN pc :
        pc[t] \in {"e_matches", "e_insert"} =>
            /\ pending[t].player1 \in Range(before[t])
            /\ pending[t].player2 \in Range(before[t])

\* C10 amended: player1 was in the wait list at the pairing; player2 is the
\* caller, which was not.
C10_OpponentWaited ==
    \A t \in DOMAIN pc :
        pc[t] \in {"e_matches", "e_insert"} =>
            /\ pending[t].player1 \in Range(before[t])
            /\ pending[t].player2 = arg[t]
            /\ pending[t].player2 \notin Range(before[t])

\* a match has been built and is about to be recorded
C10_Witness ==
    \E t \in DOMAIN pc : pc[t] = "e_matches" /\ pending[t] \in built

\* C11: both participants of every recorded match are identifiers of
\* registered profiles.
C11_ParticipantsRegistered ==
    \A m \in Values(matches) :
        /\ m.player1 \in DOMAIN profiles
        /\ m.player2 \in DOMAIN profiles

\* a match between two registered profiles is recorded
C11_Witness ==
    \E m \in Values(matches) : {m.player1, m.player2} \subseteq DOMAIN profiles

\* C18: the wait list holds at most one identifier, so a join that draws an
\* opponent has exactly one index to draw.
C18_AtMostOneWaiting ==
    /\ Len(queue) <= 1
    /\ \A t \in DOMAIN pc :
          (pc[t] = "e_decide" /\ ~IsEmpty(queue)) => GenRange(Len(queue)) = {0}

\* a join is about to draw its opponent from a wait list of one
C18_Witness ==
    \E t \in DOMAIN pc : pc[t] = "e_decide" /\ Len(queue) = 1

\* C19: every identifier in the wait list is a registered profile, and so is
\* the identifier of every join that has passed the profile lookup, given the
\* profiles guard back and not yet returned.
C19_WaitingRegistered ==
    /\ Range(queue) \subseteq DOMAIN profiles
    /\ \A t \in DOMAIN pc :
          pc[t] \in {"e_queue", "e_decide", "e_matches", "e_insert"} =>
              arg[t] \in DOMAIN profiles

\* a join has passed the lookup and waits for the queue mutex while another
\* task holds the profiles mutex to insert a profile, and somebody waits
C19_Witness ==
    /\ \E t, u \in DOMAIN pc : pc[t] = "e_queue" /\ pc[u] = "c_insert"
    /\ queue # <<>>

\* C20: whenever nobody holds the queue mutex, the joins answered Enqueued
\* are as many as the entries waiting plus the matches recorded plus the
\* leaves answered Removed, and the matches recorded are as many as the joins
\* answered with a match.
C20_Accounting ==
    lockQ = NoTask =>
        /\ tally.enqueued =
              Len(queue) + Cardinality(DOMAIN matches) + tally.removed
        /\ Cardinality(DOMAIN matches) = tally.matched

\* nobody holds the queue mutex after a leave was answered Removed and a join
\* was answered with a match
C20_Witness ==
    /\ lockQ = NoTask
    /\ tally.removed >= 1
    /\ tally.matched >= 1

\* C13: a leave_queue call never changes the match store or the profile
\* store.  Called on an identifier that waits it answers Removed and the wait
\* list is the one it locked without that entry, the others in their order;
\* called on one that does not wait it answers NotQueued and the wait list is
\* as it was.
C13_Leave ==
    [][/\ ((\E t \in DOMAIN pc : pc[t] # pc'[t] /\ "l_remove" \in {pc[t], pc'[t]})
            \/ last'.call = "leave_queue") =>
              (matches' = matches /\ profiles' = profiles)
       /\ (\E t \in DOMAIN pc : pc[t] = "idle" /\ pc'[t] = "l_remove") =>
              queue' = queue
       /\ last'.call = "leave_queue" =>
              /\ queue = last'.before
              /\ IF last'.arg \in Range(last'.before)
                 THEN /\ last'.resp.status = 200
                      /\ last'.resp.text = "Removed from queue"
                      /\ last'.arg \notin Range(queue')
                      /\ \E i \in 1..Len(queue) :
                            queue[i] = last'.arg /\ queue' = Without(queue, i)
                 ELSE /\ last'.resp.status = 400
                      /\ last'.resp.text = "Not in queue"
                      /\ queue' = queue]_vars

\* a leave has been answered Removed while a match is recorded, and the wait
\* list is empty
C13_Witness ==
    /\ last.call = "leave_queue"
    /\ last.resp.text = "Removed from queue"
    /\ matches # EmptyMap
    /\ queue = <<>>

\* C14: only a registered identifier gets past the profile lookup of enqueue;
\* a join on an unregistered identifier answers UnknownProfile and leaves the
\* wait list, the match store and the profile store as they were.
C14_UnknownProfile ==
    [][/\ \A t \in DOMAIN pc :
            (pc[t] = "idle" /\ pc'[t] = "e_queue") => arg'[t] \in DOMAIN profiles
       /\ (last'.call = "enqueue" /\ last'.arg \notin DOMAIN profiles) =>
              /\ last'.resp.status = 400
              /\ last'.resp.text = "Profile does not exist"
              /\ queue' = queue
              /\ matches' = matches
              /\ profiles' = profiles
       /\ (last'.call = "enqueue" /\ last'.resp.text = "Profile does not exist") =>
              last'.arg \notin DOMAIN profiles]_vars

\* a join on an unregistered identifier has been answered UnknownProfile
\* while somebody waits
C14_Witness ==
    /\ last.call = "enqueue"
    /\ last.resp.text = "Profile does not exist"
    /\ last.arg \notin DOMAIN profiles
    /\ queue # <<>>

\* C12 as stated: no identifier is a participant of two different recorded
\* matches.
C12_NoSharedParticipant ==
    \A a, b \in DOMAIN matches :
        a # b => Players(matches[a]) \cap Players(matches[b]) = {}

\* C12 amended: a profile is a participant of no more recorded matches than
\* joins on it were answered Enqueued or with a match; it gets into a second
\* match only by joining again.
C12_OneMatchPerJoin ==
    \A id \in DOMAIN joined :
        Cardinality({k \in DOMAIN matches : id \in Players(matches[k])}) <= joined[id]

\* a profile that joined twice is a participant of two recorded matches
C12_Witness ==
    \E id \in DOMAIN joined :
        /\ joined[id] = 2
        /\ Cardinality({k \in DOMAIN matches : id \in Players(matches[k])}) = 2

\* C15: the match store only grows.  Every step keeps each recorded match
\* under its identifier with the same players; the store changes only when a
\* pairing records its match, and then by exactly that one match under an
\* identifier that was not in use; and list_matches answers with every
\* recorded match exactly once.
C15_MatchesOnlyGrow ==
    [][/\ \A k \in DOMAIN matches :
            k \in DOMAIN matches' /\ matches'[k] = matches[k]
       /\ \A t \in DOMAIN pc :
            (pc[t] = "e_insert" /\ pc'[t] = "idle") =>
                /\ pending[t].id \notin DOMAIN matches
                /\ DOMAIN matches' = DOMAIN matches \cup {pending[t].id}
                /\ matches'[pending[t].id] = pending[t]
       /\ matches' # matches =>
            \E t \in DOMAIN pc : pc[t] = "e_insert" /\ pc'[t] = "idle"
       /\ last'.call = "list_matches" =>
            /\ Len(last'.resp.data) = Cardinality(DOMAIN matches)
            /\ \A m \in Values(matches) :
                  Cardinality({i \in 1..Len(last'.resp.data) :
                                  last'.resp.data[i] = m}) = 1]_vars

\* list_matches has answered with two matches
C15_Witness ==
    /\ last.call = "list_matches"
    /\ Len(last.resp.data) = 2
    /\ Cardinality(DOMAIN matches) = 2

\* C17: distinct registered profiles 1, 2, 3, ... join one after another on
\* empty stores.  The odd joins are answered Enqueued and the even ones with a
\* match; once j joins have returned there are j div 2 matches, the k-th join
\* pair (2k-1, 2k) being one of them for each k, and the wait list is the last
\* joiner if j is odd and empty otherwise.  After three joins list_matches
\* answers with exactly one match, that of 1 and 2.
C17_SequentialJoins ==
    AllReturned =>
        /\ Cardinality(DOMAIN matches) = njoins \div 2
        /\ \A k \in 1..(njoins \div 2) :
              \E m \in Values(matches) : Players(m) = {2 * k - 1, 2 * k}
        /\ queue = IF njoins % 2 = 1 THEN <<njoins>> ELSE <<>>
        /\ last.call = "enqueue" =>
              /\ last.arg = njoins
              /\ IF njoins % 2 = 1
                 THEN last.resp.status = 202 /\ last.resp.text = "Enqueued"
                 ELSE /\ last.resp.status = 201
                      /\ Players(last.resp.data[1]) = {njoins - 1, njoins}
        /\ (last.call = "list_matches" /\ njoins = 3) =>
              /\ Len(last.resp.data) = 1
              /\ Players(last.resp.data[1]) = {1, 2}
        /\ (last.call = "get_queue" /\ njoins = 3) => last.resp.data = <<3>>

\* profiles 1, 2 and 3 have joined, 3 waits, and list_matches has answered
\* with the one match of 1 and 2
C17_Witness ==
    /\ AllReturned
    /\ njoins = 3
    /\ queue = <<3>>
    /\ last.call = "list_matches"
    /\ Len(last.resp.data) = 1
    /\ Players(last.resp.data[1]) = {1, 2}

\* C16: every call that has started returns: a task that is inside a handler
\* is eventually between requests again, whatever the other tasks do; in
\* particular no two tasks ever wait for each other.
C16_EveryCallReturns ==
    \A t \in Tasks : (pc[t] # "idle") ~> (pc[t] = "idle")

\* a pairing join holds the queue mutex and waits for the matches mutex, which
\* a list_matches call holds
C16_Witness ==
    \E t, u \in DOMAIN pc :
        /\ pc[t] = "e_matches" /\ lockQ = t
        /\ pc[u] = "m_read" /\ lockM = u

====
